---- MODULE Spec2Model ----
(***************************************************************************)
(* The securityPolicy appender of the graph telemetry pipeline             *)
(* (graph/telemetry/istio/appender/security_policy.go).                    *)
(*                                                                         *)
(* One AppendGraph invocation queries the metrics backend twice, folds the *)
(* returned samples into the securityPolicyMap (key "<sourceId> <destId>"  *)
(* -> policy label -> rate) and writes the mutual-TLS percentage onto the  *)
(* edges of the traffic map that have a matching key.                      *)
(*                                                                         *)
(* float64 values are modelled exactly: rates are naturals, a quotient is  *)
(* a fraction in lowest terms and 0/0 is NaN; rounding is not modelled.    *)
(***************************************************************************)
EXTENDS Integers, Sequences, FiniteSets, TLC

VARIABLES
    a,                  \* the appender: GraphType, InjectServiceNodes, Namespaces
    series,             \* the series the metrics backend holds
    promClient,         \* globalInfo.PromClient
    trafficMap,         \* node ID -> node (with its outgoing edges)
    outVector,          \* result of query 1
    inVector,           \* result of query 2
    securityPolicyMap,  \* key -> PolicyRates
    pc,                 \* position of the invocation inside AppendGraph/appendGraph
    idx,                \* position of the range loop of populateSecurityPolicyMap
    calls,              \* history: the addSecurityPolicy calls made so far, in order
    trafficMap0,        \* history: the traffic map AppendGraph was given
    cpc,                \* concurrent run: position of each invocation
    cHandle,            \* concurrent run: client handle constructed by each invocation
    cErr,               \* concurrent run: err returned to each invocation by NewClient
    cUsed               \* concurrent run: client handle each invocation passed to appendGraph

vars == <<a, series, promClient, trafficMap, outVector, inVector, securityPolicyMap,
          pc, idx, calls, trafficMap0, cpc, cHandle, cErr, cUsed>>

seqVars == <<a, series, trafficMap, outVector, inVector, securityPolicyMap,
             pc, idx, calls, trafficMap0>>

concVars == <<cpc, cHandle, cErr, cUsed>>

-----------------------------------------------------------------------------
(* Bounds *)

\* the backend holds at most this many series
MaxSeries == 3

\* namespaces processed concurrently by the pipeline driver
NumNamespaces == 3

-----------------------------------------------------------------------------
(* Constants of the program *)

policyMTLS == "mutual_tls"

\* graph.IsMTLS, the metadata key the percentage is written under
IsMTLS == "isMTLS"

NodeTypeService == "service"
NodeTypeWorkload == "workload"
NodeTypeApp == "app"
NodeTypeUnknown == "unknown"

GraphTypeWorkload == "workload"
GraphTypeVersionedApp == "versionedApp"

\* a nil pointer, an absent map entry
Nil == "nil"

\* the labels populateSecurityPolicyMap reads from a sample's metric
RequiredLabels ==
    { "source_workload_namespace", "source_workload", "source_app", "source_version",
      "destination_service_namespace", "destination_service_name",
      "destination_workload_namespace", "destination_workload", "destination_app",
      "destination_version", "connection_security_policy" }

-----------------------------------------------------------------------------
(* float64 *)

RECURSIVE Gcd(_, _)
Gcd(x, y) == IF y = 0 THEN x ELSE Gcd(y, x % y)

\* the float64 0/0
NaN == [num |-> 0, den |-> 0]

\* the float64 n/d of two non-negative values (x/0 is +Inf for x > 0)
Float(n, d) ==
    IF d = 0
    THEN (IF n = 0 THEN NaN ELSE [num |-> 1, den |-> 0])
    ELSE [num |-> n \div Gcd(n, d), den |-> d \div Gcd(n, d)]

-----------------------------------------------------------------------------
(* graph.Id: the node identity resolver *)

IsOK(s) == s # ""

\* the canonical node ID and the node kind of a telemetry endpoint
Id(serviceNamespace, service, workloadNamespace, workload, app, version, graphType) ==
    LET namespace == IF IsOK(workloadNamespace) THEN workloadNamespace ELSE serviceNamespace
        svc == [id |-> "svc_" \o namespace \o "_" \o service, nodeType |-> NodeTypeService]
        wl == [id |-> "wl_" \o namespace \o "_" \o workload, nodeType |-> NodeTypeWorkload]
        unknown == [id |-> "unknown", nodeType |-> NodeTypeUnknown]
    IN  IF graphType = GraphTypeWorkload
        THEN IF IsOK(workload) THEN wl
             ELSE IF IsOK(service) THEN svc
             ELSE unknown
        ELSE IF IsOK(app)
             THEN IF graphType = GraphTypeVersionedApp /\ IsOK(version)
                  THEN [id |-> "vapp_" \o namespace \o "_" \o app \o "_" \o version,
                        nodeType |-> NodeTypeApp]
                  ELSE [id |-> "app_" \o namespace \o "_" \o app, nodeType |-> NodeTypeApp]
             ELSE IF IsOK(workload) THEN wl
             ELSE IF IsOK(service) THEN svc
             ELSE unknown

-----------------------------------------------------------------------------
(* The metrics backend: labelled rate series, and the two queries *)

\* the metric of a series from workload srcWl to workload wl behind service svc
Metric(srcNs, srcWl, svcNs, svc, wlNs, wl, csp) ==
    [ source_workload_namespace |-> srcNs,
      source_workload |-> srcWl,
      source_app |-> srcWl,
      source_version |-> "v1",
      destination_service_namespace |-> svcNs,
      destination_service_name |-> svc,
      destination_workload_namespace |-> wlNs,
      destination_workload |-> wl,
      destination_app |-> wl,
      destination_version |-> IF wl = "" THEN "" ELSE "v1",
      connection_security_policy |-> csp ]

\* metric m without label l
Without(m, l) == [x \in DOMAIN m \ {l} |-> m[x]]

Sample(m, v) == [Metric |-> m, Value |-> v]

\* the namespace AppendGraph is invoked for (namespaceInfo.Namespace)
Namespace == "ns1"

\* series of traffic entering the namespace from workload a of ns2
EnteringSeries ==
    { Sample(Metric("ns2", "a", "ns1", "s", "ns1", "b1", policyMTLS), 8),
      Sample(Metric("ns2", "a", "ns1", "s", "ns1", "b1", "none"), 2),
      Sample(Metric("ns2", "a", "ns1", "s", "ns1", "b2", policyMTLS), 2),
      Sample(Metric("ns2", "a", "ns1", "s", "", "", policyMTLS), 5),
      Sample(Metric("ns2", "a", "ns1", "", "ns1", "b1", "none"), 3),
      Sample(Metric("ns2", "a", "ns1", "s", "ns1", "b2", "none"), 0) }

\* series of traffic leaving workload c of the namespace
LeavingSeries ==
    { Sample(Metric("ns1", "c", "ns1", "s", "ns1", "b1", policyMTLS), 5),
      Sample(Metric("ns1", "c", "ns1", "s", "ns1", "b1", "none"), 1),
      Sample(Metric("ns1", "c", "ns1", "s", "ns1", "b2", "none"), 0),
      Sample(Metric("ns1", "c", "istio-system", "telemetry", "istio-system", "mixer",
                    policyMTLS), 4) }

\* series that lack one of the grouping labels
MalformedSeries ==
    { Sample(Without(Metric("ns2", "a", "ns1", "s", "ns1", "b1", policyMTLS),
                     "connection_security_policy"), 7),
      Sample(Without(Metric("ns1", "c", "ns1", "s", "ns1", "b1", policyMTLS),
                     "destination_version"), 6),
      Sample(Without(Metric("ns1", "c", "ns1", "s", "ns1", "b1", "none"),
                     "source_workload_namespace"), 9) }

SeriesUniverse == EnteringSeries \cup LeavingSeries \cup MalformedSeries

\* a series of workload c that lacks one label, for each label the loop reads, and two
\* complete series of workload c
LabelSeriesUniverse ==
    { Sample(Without(Metric("ns1", "c", "ns1", "s", "ns1", "b2", policyMTLS), l), 7) :
        l \in RequiredLabels }
    \cup { Sample(Metric("ns1", "c", "ns1", "s", "ns1", "b1", policyMTLS), 5),
           Sample(Metric("ns1", "c", "ns1", "s", "ns1", "b1", "none"), 1) }

\* the value of a label (in a query's matcher, in a map lookup): an absent label is
\* the empty string
Label(m, l) == IF l \in DOMAIN m THEN m[l] ELSE ""

\* the namespaces flagged as Istio infrastructure
getIstioNamespaces(namespaces) == {n \in DOMAIN namespaces : namespaces[n].IsIstio}

\* query 1: requests originating from a workload outside the namespace
OutQuery(s, namespace) ==
    /\ Label(s.Metric, "source_workload_namespace") # namespace
    /\ Label(s.Metric, "destination_service_namespace") = namespace
    /\ s.Value > 0

\* query 2: requests originating from a workload inside of the namespace
InQuery(s, namespace, excludedIstioNamespaces) ==
    /\ Label(s.Metric, "source_workload_namespace") = namespace
    /\ \/ excludedIstioNamespaces = {}
       \/ Label(s.Metric, "destination_service_namespace") \notin excludedIstioNamespaces
    /\ s.Value > 0

RECURSIVE Orderings(_)
\* the sequences that list every element of S once
Orderings(S) ==
    IF S = {} THEN {<<>>}
    ELSE UNION {{<<x>> \o p : p \in Orderings(S \ {x})} : x \in S}

\* promQuery: the matching series as a vector, in an order the backend chooses
promQuery(matching) == Orderings(matching)

-----------------------------------------------------------------------------
(* The Policy Aggregator: populateSecurityPolicyMap and addSecurityPolicy *)

\* the arguments of one addSecurityPolicy call
Call(csp, val, sourceNs, sourceSvc, sourceWl, sourceApp, sourceVer, destSvcNs, destSvc, destWlNs, destWl, destApp, destVer) ==
    [ csp |-> csp, val |-> val,
      sourceNs |-> sourceNs, sourceSvc |-> sourceSvc, sourceWl |-> sourceWl,
      sourceApp |-> sourceApp, sourceVer |-> sourceVer,
      destSvcNs |-> destSvcNs, destSvc |-> destSvc, destWlNs |-> destWlNs,
      destWl |-> destWl, destApp |-> destApp, destVer |-> destVer ]

\* the key addSecurityPolicy files a call under: "<sourceId> <destId>"
policyKey(c) ==
    LET sourceId == Id(c.sourceNs, c.sourceSvc, c.sourceNs, c.sourceWl, c.sourceApp,
                       c.sourceVer, a.GraphType).id
        destId == Id(c.destSvcNs, c.destSvc, c.destWlNs, c.destWl, c.destApp,
                     c.destVer, a.GraphType).id
    IN  sourceId \o " " \o destId

\* addSecurityPolicy with policyRates[csp] += val
addSecurityPolicySumming(spm, c) ==
    LET key == policyKey(c)
        policyRates == IF key \in DOMAIN spm THEN spm[key] ELSE <<>>
        stored == [p \in DOMAIN policyRates \cup {c.csp} |->
                      IF p = c.csp
                      THEN (IF p \in DOMAIN policyRates THEN policyRates[p] ELSE 0) + c.val
                      ELSE policyRates[p]]
    IN  [k \in DOMAIN spm \cup {key} |-> IF k = key THEN stored ELSE spm[k]]

\* addSecurityPolicy that makes the entry of a new key and returns without storing
addSecurityPolicyEmptyEntry(spm, c) ==
    LET key == policyKey(c)
    IN  IF key \in DOMAIN spm
        THEN [spm EXCEPT ![key] = [p \in DOMAIN spm[key] \cup {c.csp} |->
                                      IF p = c.csp THEN c.val ELSE spm[key][p]]]
        ELSE [k \in DOMAIN spm \cup {key} |-> IF k = key THEN <<>> ELSE spm[k]]

\* addSecurityPolicy that makes a new PolicyRates on every call
addSecurityPolicyFreshEntry(spm, c) ==
    LET key == policyKey(c)
    IN  [k \in DOMAIN spm \cup {key} |->
            IF k = key THEN [p \in {c.csp} |-> c.val] ELSE spm[k]]

\* policyRates[csp] = val, on the entry of the call's key (made when absent)
addSecurityPolicy(spm, c) ==
    LET key == policyKey(c)
        policyRates == IF key \in DOMAIN spm THEN spm[key] ELSE <<>>
        stored == [p \in DOMAIN policyRates \cup {c.csp} |->
                      IF p = c.csp THEN c.val ELSE policyRates[p]]
    IN  [k \in DOMAIN spm \cup {key} |-> IF k = key THEN stored ELSE spm[k]]

\* the label check without cspOk
hasExpectedLabelsNoCsp(m) ==
    \A l \in RequiredLabels \ {"connection_security_policy"} : l \in DOMAIN m

\* the check that every expected label is present
hasExpectedLabels(m) == \A l \in RequiredLabels : l \in DOMAIN m

\* the loop body with the injection branch making its first call only
observationsNoSecondHop(s) ==
    LET m == s.Metric
        direct == Call(Label(m, "connection_security_policy"), s.Value,
                       Label(m, "source_workload_namespace"), "",
                       Label(m, "source_workload"), Label(m, "source_app"),
                       Label(m, "source_version"),
                       Label(m, "destination_service_namespace"),
                       Label(m, "destination_service_name"),
                       Label(m, "destination_workload_namespace"),
                       Label(m, "destination_workload"), Label(m, "destination_app"),
                       Label(m, "destination_version"))
        destNodeType == Id(direct.destSvcNs, direct.destSvc, direct.destWlNs, direct.destWl,
                           direct.destApp, direct.destVer, a.GraphType).nodeType
    IN  IF a.InjectServiceNodes /\ destNodeType # NodeTypeService
        THEN << [direct EXCEPT !.destWlNs = "", !.destWl = "", !.destApp = "",
                               !.destVer = ""] >>
        ELSE << direct >>

\* the addSecurityPolicy calls the loop body makes for a sample with all its labels
observations(s) ==
    LET m == s.Metric
        sourceWlNs == Label(m, "source_workload_namespace")
        sourceWl == Label(m, "source_workload")
        sourceApp == Label(m, "source_app")
        sourceVer == Label(m, "source_version")
        destSvcNs == Label(m, "destination_service_namespace")
        destSvc == Label(m, "destination_service_name")
        destWlNs == Label(m, "destination_workload_namespace")
        destWl == Label(m, "destination_workload")
        destApp == Label(m, "destination_app")
        destVer == Label(m, "destination_version")
        csp == Label(m, "connection_security_policy")
        destSvcOk == "destination_service_name" \in DOMAIN m
        val == s.Value
        destNodeType == Id(destSvcNs, destSvc, destWlNs, destWl, destApp, destVer,
                           a.GraphType).nodeType
        direct == Call(csp, val, sourceWlNs, "", sourceWl, sourceApp, sourceVer,
                       destSvcNs, destSvc, destWlNs, destWl, destApp, destVer)
    IN  IF a.InjectServiceNodes
        THEN IF destSvcOk /\ destNodeType # NodeTypeService
             THEN << Call(csp, val, sourceWlNs, "", sourceWl, sourceApp, sourceVer,
                          destSvcNs, destSvc, "", "", "", ""),
                     Call(csp, val, destSvcNs, destSvc, "", "", "",
                          destSvcNs, destSvc, destWlNs, destWl, destApp, destVer) >>
             ELSE << direct >>
        ELSE << direct >>

\* the calls of one iteration of the range loop: none for a skipped sample
sampleCalls(s) == IF hasExpectedLabels(s.Metric) THEN observations(s) ELSE <<>>

RECURSIVE addAll(_, _)
addAll(spm, cs) ==
    IF cs = <<>> THEN spm ELSE addAll(addSecurityPolicy(spm, Head(cs)), Tail(cs))

RECURSIVE populateSecurityPolicyMap(_, _)
\* the whole range loop over a vector
populateSecurityPolicyMap(spm, vector) ==
    IF vector = <<>> THEN spm
    ELSE populateSecurityPolicyMap(addAll(spm, sampleCalls(Head(vector))), Tail(vector))

-----------------------------------------------------------------------------
(* applySecurityPolicy *)

RECURSIVE otherRates(_, _)
\* other += rate over the policies of ps
otherRates(policyRates, ps) ==
    IF ps = {} THEN 0
    ELSE LET policy == CHOOSE p \in ps : TRUE
         IN  policyRates[policy] + otherRates(policyRates, ps \ {policy})

\* the percentage with other += rate made for every policy, mutual_tls included
mtlsPercentageNoElse(policyRates) ==
    LET mtls == IF policyMTLS \in DOMAIN policyRates THEN policyRates[policyMTLS] ELSE 0
        other == otherRates(policyRates, DOMAIN policyRates)
    IN  Float(mtls * 100, mtls + other)

\* mtls / (mtls + other) * 100 of one PolicyRates
mtlsPercentage(policyRates) ==
    LET mtls == IF policyMTLS \in DOMAIN policyRates THEN policyRates[policyMTLS] ELSE 0
        other == otherRates(policyRates, DOMAIN policyRates \ {policyMTLS})
    IN  Float(mtls * 100, mtls + other)

edgeKey(e) == e.Source \o " " \o e.Dest

\* e.Metadata[k] = v
setMetadata(md, k, v) == [x \in DOMAIN md \cup {k} |-> IF x = k THEN v ELSE md[x]]

\* the inner loop body writing 0 on an edge whose key is not found
applyEdgeDefault(e, spm) ==
    [e EXCEPT !.Metadata =
        setMetadata(e.Metadata, IsMTLS,
                    IF edgeKey(e) \in DOMAIN spm THEN mtlsPercentage(spm[edgeKey(e)])
                    ELSE Float(0, 1))]

\* the edge after the body of the inner loop
applyEdge(e, spm) ==
    IF edgeKey(e) \in DOMAIN spm
    THEN [e EXCEPT !.Metadata = setMetadata(e.Metadata, IsMTLS, mtlsPercentage(spm[edgeKey(e)]))]
    ELSE e

\* applySecurityPolicy that makes a node for every aggregated key without an edge
applySecurityPolicyMakingNodes(tm, spm) ==
    LET keys == UNION {{edgeKey(tm[n].Edges[j]) : j \in DOMAIN tm[n].Edges} : n \in DOMAIN tm}
    IN  [n \in DOMAIN tm \cup (DOMAIN spm \ keys) |->
            IF n \in DOMAIN tm
            THEN [ID |-> tm[n].ID,
                  Edges |-> [j \in DOMAIN tm[n].Edges |-> applyEdge(tm[n].Edges[j], spm)]]
            ELSE [ID |-> n, Edges |-> <<>>]]

applySecurityPolicy(tm, spm) ==
    [n \in DOMAIN tm |->
        [ID |-> tm[n].ID,
         Edges |-> [j \in DOMAIN tm[n].Edges |-> applyEdge(tm[n].Edges[j], spm)]]]

-----------------------------------------------------------------------------
(* The state AppendGraph is invoked in *)

GraphTypes == {GraphTypeWorkload, GraphTypeVersionedApp}

\* a.Namespaces: the requested namespaces, with or without an Istio namespace
NamespaceSets ==
    { [n \in {"ns1"} |-> [Duration |-> 60, IsIstio |-> FALSE]],
      [n \in {"ns1", "istio-system"} |-> [Duration |-> 60, IsIstio |-> n = "istio-system"]] }

Edge(source, dest, metadata) == [Source |-> source, Dest |-> dest, Metadata |-> metadata]

\* the traffic map the upstream graph builder made: a calls service s and workload b1,
\* s routes to b1, c calls b1, b1 calls service db; workload b2 is not in the graph
BuiltTrafficMap(graphType) ==
    LET A == Id("ns2", "", "ns2", "a", "a", "v1", graphType).id
        C == Id("ns1", "", "ns1", "c", "c", "v1", graphType).id
        S == Id("ns1", "s", "", "", "", "", graphType).id
        B1 == Id("ns1", "s", "ns1", "b1", "b1", "v1", graphType).id
        D == Id("ns1", "db", "", "", "", "", graphType).id
        http == [protocol |-> "http"]
        annotated == [protocol |-> "http", isMTLS |-> Float(50, 1)]
    IN  [n \in {A, C, S, B1, D} |->
            [ID |-> n,
             Edges |-> CASE n = A -> <<Edge(A, S, http), Edge(A, B1, annotated)>>
                         [] n = S -> <<Edge(S, B1, annotated)>>
                         [] n = C -> <<Edge(C, B1, http)>>
                         [] n = B1 -> <<Edge(B1, D, http)>>
                         [] OTHER -> <<>>]]

EmptyTrafficMap == <<>>

TrafficMaps(graphType) == {EmptyTrafficMap, BuiltTrafficMap(graphType)}

Backends == {S \in SUBSET SeriesUniverse : Cardinality(S) <= MaxSeries}

LabelBackends == {S \in SUBSET LabelSeriesUniverse : Cardinality(S) <= MaxSeries}

\* the state before an invocation whose backend is one of backends
InitSeq(backends) ==
    /\ a \in [GraphType : GraphTypes, InjectServiceNodes : BOOLEAN, Namespaces : NamespaceSets]
    /\ series \in backends
    /\ trafficMap \in TrafficMaps(a.GraphType)
    /\ trafficMap0 = trafficMap
    /\ outVector = <<>>
    /\ inVector = <<>>
    /\ securityPolicyMap = <<>>
    /\ pc = "AppendGraph"
    /\ idx = 1
    /\ calls = <<>>

Init ==
    /\ InitSeq(Backends)
    /\ promClient \in {Nil, "client"}
    /\ cpc = <<>>
    /\ cHandle = <<>>
    /\ cErr = <<>>
    /\ cUsed = <<>>

\* the same, on a backend whose series lack labels
InitLabels ==
    /\ InitSeq(LabelBackends)
    /\ promClient \in {Nil, "client"}
    /\ cpc = <<>>
    /\ cHandle = <<>>
    /\ cErr = <<>>
    /\ cUsed = <<>>

-----------------------------------------------------------------------------
(* One invocation, step by step *)

\* AppendGraph up to the call of appendGraph
AppendGraph ==
    /\ pc = "AppendGraph"
    /\ IF DOMAIN trafficMap = {}
       THEN pc' = "done" /\ UNCHANGED promClient
       ELSE IF promClient = Nil
            THEN \E err \in BOOLEAN :
                    IF err
                    THEN promClient' = Nil /\ pc' = "panic"
                    ELSE promClient' = "client" /\ pc' = "queryOut"
            ELSE pc' = "queryOut" /\ UNCHANGED promClient
    /\ UNCHANGED <<a, series, trafficMap, outVector, inVector, securityPolicyMap, idx,
                   calls, trafficMap0>>
    /\ UNCHANGED concVars

\* appendGraph: the first query
QueryOut ==
    /\ pc = "queryOut"
    /\ outVector' \in promQuery({s \in series : OutQuery(s, Namespace)})
    /\ pc' = "queryIn"
    /\ UNCHANGED <<a, series, promClient, trafficMap, inVector, securityPolicyMap, idx,
                   calls, trafficMap0>>
    /\ UNCHANGED concVars

\* appendGraph: the second query, and the new securityPolicyMap
QueryIn ==
    /\ pc = "queryIn"
    /\ inVector' \in promQuery({s \in series :
                                  InQuery(s, Namespace, getIstioNamespaces(a.Namespaces))})
    /\ securityPolicyMap' = <<>>
    /\ pc' = "populateOut"
    /\ idx' = 1
    /\ UNCHANGED <<a, series, promClient, trafficMap, outVector, calls, trafficMap0>>
    /\ UNCHANGED concVars

\* one iteration of populateSecurityPolicyMap over vector, or its return
Populate(vector, return) ==
    /\ IF idx <= Len(vector)
       THEN /\ securityPolicyMap' = addAll(securityPolicyMap, sampleCalls(vector[idx]))
            /\ calls' = calls \o sampleCalls(vector[idx])
            /\ idx' = idx + 1
            /\ pc' = pc
       ELSE /\ pc' = return
            /\ idx' = 1
            /\ UNCHANGED <<securityPolicyMap, calls>>
    /\ UNCHANGED <<a, series, promClient, trafficMap, outVector, inVector, trafficMap0>>
    /\ UNCHANGED concVars

PopulateOut == pc = "populateOut" /\ Populate(outVector, "populateIn")

PopulateIn == pc = "populateIn" /\ Populate(inVector, "apply")

ApplySecurityPolicy ==
    /\ pc = "apply"
    /\ trafficMap' = applySecurityPolicy(trafficMap, securityPolicyMap)
    /\ pc' = "done"
    /\ UNCHANGED <<a, series, promClient, outVector, inVector, securityPolicyMap, idx,
                   calls, trafficMap0>>
    /\ UNCHANGED concVars

Next ==
    \/ AppendGraph
    \/ QueryOut
    \/ QueryIn
    \/ PopulateOut
    \/ PopulateIn
    \/ ApplySecurityPolicy

Spec == Init /\ [][Next]_vars

SpecLabels == InitLabels /\ [][Next]_vars

-----------------------------------------------------------------------------
(* AppendGraph invoked concurrently, once per namespace, on one shared globalInfo. *)
(* Each invocation runs the statements of AppendGraph one at a time; the body of   *)
(* appendGraph is a single step that records the client handle it was passed.      *)

Invocations == 1 .. NumNamespaces

\* the handle of the client constructed by invocation p
ClientOf(p) == "client" \o ToString(p)

InitConcurrent ==
    /\ a \in [GraphType : {GraphTypeWorkload}, InjectServiceNodes : {FALSE},
              Namespaces : NamespaceSets]
    /\ series = {}
    /\ trafficMap \in TrafficMaps(a.GraphType)
    /\ trafficMap0 = trafficMap
    /\ outVector = <<>>
    /\ inVector = <<>>
    /\ securityPolicyMap = <<>>
    /\ pc = "concurrent"
    /\ idx = 1
    /\ calls = <<>>
    /\ promClient = Nil
    /\ cpc = [p \in Invocations |-> "AppendGraph"]
    /\ cHandle = [p \in Invocations |-> Nil]
    /\ cErr = [p \in Invocations |-> FALSE]
    /\ cUsed = [p \in Invocations |-> Nil]

\* if len(trafficMap) == 0 { return }; if globalInfo.PromClient == nil {
CheckClient(p) ==
    /\ cpc[p] = "AppendGraph"
    /\ cpc' = [cpc EXCEPT ![p] = IF DOMAIN trafficMap = {} THEN "done"
                                 ELSE IF promClient = Nil THEN "NewClient"
                                 ELSE "appendGraph"]
    /\ UNCHANGED <<promClient, cHandle, cErr, cUsed>>
    /\ UNCHANGED seqVars

\* prometheus.NewClient() returns a client, or an error
NewClient(p) ==
    /\ cpc[p] = "NewClient"
    /\ \E err \in BOOLEAN :
          /\ cErr' = [cErr EXCEPT ![p] = err]
          /\ cHandle' = [cHandle EXCEPT ![p] = IF err THEN Nil ELSE ClientOf(p)]
    /\ cpc' = [cpc EXCEPT ![p] = "assign"]
    /\ UNCHANGED <<promClient, cUsed>>
    /\ UNCHANGED seqVars

\* globalInfo.PromClient, err = ...; graph.CheckError(err)
AssignClient(p) ==
    /\ cpc[p] = "assign"
    /\ promClient' = cHandle[p]
    /\ cpc' = [cpc EXCEPT ![p] = IF cErr[p] THEN "panic" ELSE "appendGraph"]
    /\ UNCHANGED <<cHandle, cErr, cUsed>>
    /\ UNCHANGED seqVars

\* a.appendGraph(trafficMap, namespaceInfo.Namespace, globalInfo.PromClient)
CallAppendGraph(p) ==
    /\ cpc[p] = "appendGraph"
    /\ cUsed' = [cUsed EXCEPT ![p] = promClient]
    /\ cpc' = [cpc EXCEPT ![p] = "done"]
    /\ UNCHANGED <<promClient, cHandle, cErr>>
    /\ UNCHANGED seqVars

NextConcurrent ==
    \E p \in Invocations :
        \/ CheckClient(p)
        \/ NewClient(p)
        \/ AssignClient(p)
        \/ CallAppendGraph(p)

SpecConcurrent == InitConcurrent /\ [][NextConcurrent]_vars

-----------------------------------------------------------------------------
(* Vocabulary of the properties *)

\* the edges of a traffic map, each named by its owner and its position
EdgesOf(tm) == UNION {{<<n, j>> : j \in DOMAIN tm[n].Edges} : n \in DOMAIN tm}

EdgeAt(tm, ne) == tm[ne[1]].Edges[ne[2]]

\* the (source ID, dest ID) pairs of a traffic map's edges
EdgePairs(tm) == {<<EdgeAt(tm, ne).Source, EdgeAt(tm, ne).Dest>> : ne \in EdgesOf(tm)}

\* the keys of a traffic map's edges
EdgeKeys(tm) == {EdgeAt(tm, ne).Source \o " " \o EdgeAt(tm, ne).Dest : ne \in EdgesOf(tm)}

RECURSIVE SumRates(_, _)
SumRates(rates, labels) ==
    IF labels = {} THEN 0
    ELSE LET l == CHOOSE x \in labels : TRUE
         IN  rates[l] + SumRates(rates, labels \ {l})

Hundred == [num |-> 100, den |-> 1]
Eighty == [num |-> 80, den |-> 1]

-----------------------------------------------------------------------------
(* C1 *)

\* C1: no fabricated edges. In every state of an invocation the traffic map has
\* exactly the nodes and exactly the (source ID, dest ID) edges it was given, each
\* node under its own ID; an aggregated key that matches no edge adds nothing.
C1_NoFabricatedEdges ==
    /\ DOMAIN trafficMap = DOMAIN trafficMap0
    /\ \A n \in DOMAIN trafficMap :
          /\ trafficMap[n].ID = trafficMap0[n].ID
          /\ Len(trafficMap[n].Edges) = Len(trafficMap0[n].Edges)
          /\ \A j \in DOMAIN trafficMap[n].Edges :
                /\ trafficMap[n].Edges[j].Source = trafficMap0[n].Edges[j].Source
                /\ trafficMap[n].Edges[j].Dest = trafficMap0[n].Edges[j].Dest
    /\ EdgePairs(trafficMap) = EdgePairs(trafficMap0)

\* the annotation is finished, some aggregated key matched an edge and another
\* aggregated key matched none
C1_Witness ==
    /\ pc = "done"
    /\ \E k \in DOMAIN securityPolicyMap : k \notin EdgeKeys(trafficMap)
    /\ \E k \in DOMAIN securityPolicyMap : k \in EdgeKeys(trafficMap)

-----------------------------------------------------------------------------
(* C2 *)

\* C2: percentage correctness. After applySecurityPolicy every edge whose key is in
\* the aggregator carries, under the is-mTLS key, mtlsRate / (mtlsRate + otherRate) * 100
\* with mtlsRate the rate under "mutual_tls" (0 if absent) and otherRate the sum of
\* the other labels' rates: {mutual_tls: 8, none: 2} gives 80, {mutual_tls: 5} gives 100.
C2_PercentageCorrect ==
    pc = "done" =>
        \A ne \in EdgesOf(trafficMap) :
            LET e == EdgeAt(trafficMap, ne)
                key == e.Source \o " " \o e.Dest
            IN  key \in DOMAIN securityPolicyMap =>
                    LET rates == securityPolicyMap[key]
                        mtlsRate == IF "mutual_tls" \in DOMAIN rates
                                    THEN rates["mutual_tls"] ELSE 0
                        otherRate == SumRates(rates, DOMAIN rates \ {"mutual_tls"})
                        v == e.Metadata[IsMTLS]
                    IN  /\ IsMTLS \in DOMAIN e.Metadata
                        /\ IF mtlsRate + otherRate = 0
                           THEN v = NaN
                           ELSE /\ v.den > 0
                                /\ v.num * (mtlsRate + otherRate) = v.den * mtlsRate * 100
                        /\ (DOMAIN rates = {"mutual_tls", "none"} /\ rates["mutual_tls"] = 8
                               /\ rates["none"] = 2) => v = Eighty
                        /\ (DOMAIN rates = {"mutual_tls"} /\ rates["mutual_tls"] = 5)
                               => v = Hundred

\* an edge whose aggregated rates are {mutual_tls: 8, none: 2} has been annotated
C2_Witness ==
    /\ pc = "done"
    /\ \E ne \in EdgesOf(trafficMap) :
          LET e == EdgeAt(trafficMap, ne)
              key == e.Source \o " " \o e.Dest
          IN  /\ key \in DOMAIN securityPolicyMap
              /\ DOMAIN securityPolicyMap[key] = {"mutual_tls", "none"}
              /\ securityPolicyMap[key]["mutual_tls"] = 8
              /\ securityPolicyMap[key]["none"] = 2
              /\ e.Metadata[IsMTLS] = Eighty

-----------------------------------------------------------------------------
(* C7 *)

\* C7: unmatched edges are untouched. Before applySecurityPolicy no metadata has
\* changed; after it, an edge whose key is not in the aggregator has the metadata it
\* was given, and a matched edge differs from what it was given in the is-mTLS key only.
C7_UnmatchedUntouched ==
    /\ pc # "done" => trafficMap = trafficMap0
    /\ pc = "done" =>
          \A ne \in EdgesOf(trafficMap0) :
              LET e == EdgeAt(trafficMap, ne)
                  e0 == EdgeAt(trafficMap0, ne)
                  key == e0.Source \o " " \o e0.Dest
              IN  IF key \in DOMAIN securityPolicyMap
                  THEN /\ DOMAIN e.Metadata = DOMAIN e0.Metadata \cup {IsMTLS}
                       /\ \A k \in DOMAIN e0.Metadata \ {IsMTLS} :
                             e.Metadata[k] = e0.Metadata[k]
                  ELSE e.Metadata = e0.Metadata

\* the annotation is finished with a matched edge that got a new value, an unmatched
\* edge without the is-mTLS key and an unmatched edge with an earlier is-mTLS value
C7_Witness ==
    /\ pc = "done"
    /\ \E ne \in EdgesOf(trafficMap0) :
          EdgeAt(trafficMap, ne).Metadata # EdgeAt(trafficMap0, ne).Metadata
    /\ \E ne \in EdgesOf(trafficMap0) :
          LET e0 == EdgeAt(trafficMap0, ne)
          IN  /\ e0.Source \o " " \o e0.Dest \notin DOMAIN securityPolicyMap
              /\ IsMTLS \notin DOMAIN e0.Metadata
    /\ \E ne \in EdgesOf(trafficMap0) :
          LET e0 == EdgeAt(trafficMap0, ne)
          IN  /\ e0.Source \o " " \o e0.Dest \notin DOMAIN securityPolicyMap
              /\ IsMTLS \in DOMAIN e0.Metadata

-----------------------------------------------------------------------------
(* Vocabulary of the properties about the aggregator *)

RECURSIVE CallsOfVector(_)
\* the addSecurityPolicy calls of a whole vector, in order
CallsOfVector(vector) ==
    IF vector = <<>> THEN <<>> ELSE sampleCalls(Head(vector)) \o CallsOfVector(Tail(vector))

\* the positions of cs that hold an observation of label under key
Observing(cs, key, label) ==
    {i \in DOMAIN cs : policyKey(cs[i]) = key /\ cs[i].csp = label}

Last(S) == CHOOSE i \in S : \A j \in S : j <= i

Populating == pc \in {"populateOut", "populateIn"}

Populated == pc \in {"apply", "done"}

\* the part of each vector the range loops have been through
ProcessedOut ==
    IF pc = "populateOut" THEN SubSeq(outVector, 1, idx - 1)
    ELSE IF pc = "populateIn" \/ Populated THEN outVector
    ELSE <<>>

ProcessedIn ==
    IF pc = "populateIn" THEN SubSeq(inVector, 1, idx - 1)
    ELSE IF Populated THEN inVector
    ELSE <<>>

\* the eleven grouping labels a sample must carry
GroupingLabels ==
    { "source_workload_namespace", "source_workload", "source_app", "source_version",
      "destination_service_namespace", "destination_service_name",
      "destination_workload_namespace", "destination_workload", "destination_app",
      "destination_version", "connection_security_policy" }

WellFormed(s) == GroupingLabels \subseteq DOMAIN s.Metric

\* a vector without its malformed samples
Kept(vector) == SelectSeq(vector, WellFormed)

Range(s) == {s[i] : i \in DOMAIN s}

\* the traffic map the invocation would produce from these two vectors
AnnotatedWith(p, q) ==
    applySecurityPolicy(trafficMap0,
        populateSecurityPolicyMap(populateSecurityPolicyMap(<<>>, p), q))

-----------------------------------------------------------------------------
(* C3 *)

\* C3: last write wins, inbound after outbound. The observations are made in the
\* order outbound vector, then inbound vector; for every key and label the aggregator
\* holds the rate of the last observation made for them so far (never a sum); so once
\* both vectors are merged a (key, label) the inbound query observed holds the last
\* inbound rate, and one only the outbound query observed holds the last outbound rate.
C3_LastWriteWins ==
    LET outCalls == CallsOfVector(ProcessedOut)
        inCalls == CallsOfVector(ProcessedIn)
        keyOf == [i \in DOMAIN calls |-> policyKey(calls[i])]
    IN  /\ calls = outCalls \o inCalls
        /\ \A i \in DOMAIN calls :
              /\ keyOf[i] \in DOMAIN securityPolicyMap
              /\ calls[i].csp \in DOMAIN securityPolicyMap[keyOf[i]]
        /\ \A key \in DOMAIN securityPolicyMap :
              \A label \in DOMAIN securityPolicyMap[key] :
                  LET obs == {i \in DOMAIN calls : keyOf[i] = key /\ calls[i].csp = label}
                  IN  /\ obs # {}
                      /\ securityPolicyMap[key][label] = calls[Last(obs)].val
        /\ Populated =>
              \A key \in DOMAIN securityPolicyMap :
                  \A label \in DOMAIN securityPolicyMap[key] :
                      LET inObs == Observing(inCalls, key, label)
                          outObs == Observing(outCalls, key, label)
                      IN  securityPolicyMap[key][label] =
                              IF inObs # {} THEN inCalls[Last(inObs)].val
                              ELSE outCalls[Last(outObs)].val

\* both vectors are merged and some (key, label) was observed by an outbound sample
\* and by an inbound sample with different rates, next to a label only the outbound
\* query observed
C3_Witness ==
    /\ Populated
    /\ \E key \in DOMAIN securityPolicyMap :
          /\ \E label \in DOMAIN securityPolicyMap[key] :
                LET outObs == Observing(CallsOfVector(outVector), key, label)
                    inObs == Observing(CallsOfVector(inVector), key, label)
                IN  /\ outObs # {} /\ inObs # {}
                    /\ CallsOfVector(outVector)[Last(outObs)].val
                          # CallsOfVector(inVector)[Last(inObs)].val
          /\ \E label \in DOMAIN securityPolicyMap[key] :
                /\ Observing(CallsOfVector(outVector), key, label) # {}
                /\ Observing(CallsOfVector(inVector), key, label) = {}

-----------------------------------------------------------------------------
(* C5 *)

\* C5: label robustness. At every point of the merge the aggregator and the list of
\* observations are what they would be had the samples lacking a grouping label not
\* been in the vectors, and so is the annotated traffic map at the end.
C5_LabelRobustness ==
    /\ (Populating \/ Populated) =>
          /\ securityPolicyMap =
                populateSecurityPolicyMap(
                    populateSecurityPolicyMap(<<>>, Kept(ProcessedOut)), Kept(ProcessedIn))
          /\ calls = CallsOfVector(Kept(ProcessedOut)) \o CallsOfVector(Kept(ProcessedIn))
    /\ pc = "done" => trafficMap = AnnotatedWith(Kept(outVector), Kept(inVector))

\* the annotation is finished, it changed some edge, and a vector held a malformed
\* sample between two well-formed ones
C5_Witness ==
    /\ pc = "done"
    /\ trafficMap # trafficMap0
    /\ \E v \in {outVector, inVector} :
          \E i \in DOMAIN v :
              /\ 1 < i /\ i < Len(v)
              /\ ~WellFormed(v[i])
              /\ WellFormed(v[i - 1])
              /\ WellFormed(v[i + 1])

-----------------------------------------------------------------------------
(* C9 *)

\* C9: non-zero denominator. If every sample of the two vectors has a rate above
\* zero, every PolicyRates entry of the aggregator holds a label and its rates sum to
\* more than zero, and every value written on a matched edge is a number from 0 to 100.
C9_NonZeroDenominator ==
    (/\ \A i \in DOMAIN outVector : outVector[i].Value > 0
     /\ \A i \in DOMAIN inVector : inVector[i].Value > 0)
    =>
    /\ \A key \in DOMAIN securityPolicyMap :
          /\ DOMAIN securityPolicyMap[key] # {}
          /\ SumRates(securityPolicyMap[key], DOMAIN securityPolicyMap[key]) > 0
    /\ pc = "done" =>
          \A ne \in EdgesOf(trafficMap) :
              LET e == EdgeAt(trafficMap, ne)
              IN  e.Source \o " " \o e.Dest \in DOMAIN securityPolicyMap =>
                      /\ e.Metadata[IsMTLS].den > 0
                      /\ e.Metadata[IsMTLS].num >= 0
                      /\ e.Metadata[IsMTLS].num <= 100 * e.Metadata[IsMTLS].den

\* an edge matched by a key that holds a non-mTLS label only has been annotated (0%)
C9_Witness ==
    /\ pc = "done"
    /\ Len(outVector) + Len(inVector) > 0
    /\ \E ne \in EdgesOf(trafficMap) :
          LET e == EdgeAt(trafficMap, ne)
              key == e.Source \o " " \o e.Dest
          IN  /\ key \in DOMAIN securityPolicyMap
              /\ "mutual_tls" \notin DOMAIN securityPolicyMap[key]
              /\ e.Metadata[IsMTLS] = [num |-> 0, den |-> 1]

-----------------------------------------------------------------------------
(* C10 *)

\* C10 as stated: the annotated traffic map is the same for every order of the samples
\* inside the outbound vector and inside the inbound vector.
C10_OrderIndependent ==
    pc = "done" =>
        \A p \in Orderings(Range(outVector)) :
            \A q \in Orderings(Range(inVector)) :
                AnnotatedWith(p, q) = trafficMap

\* two samples of one vector yield an observation of the same label under the same key
Collide(vector) ==
    \E i, j \in DOMAIN vector :
        /\ i # j
        /\ \E x \in DOMAIN sampleCalls(vector[i]) :
              \E y \in DOMAIN sampleCalls(vector[j]) :
                  /\ policyKey(sampleCalls(vector[i])[x]) = policyKey(sampleCalls(vector[j])[y])
                  /\ sampleCalls(vector[i])[x].csp = sampleCalls(vector[j])[y].csp

\* C10 amended: when no two samples of the same vector yield an observation of the
\* same label under the same key, the annotated traffic map is the same for every
\* order of the samples inside the outbound vector and inside the inbound vector.
C10_OrderIndependentWithoutCollision ==
    (pc = "done" /\ ~Collide(outVector) /\ ~Collide(inVector)) =>
        \A p \in Orderings(Range(outVector)) :
            \A q \in Orderings(Range(inVector)) :
                AnnotatedWith(p, q) = trafficMap

\* a vector of several samples without collision has annotated an edge from a key
\* that holds two labels
C10_Witness ==
    /\ pc = "done"
    /\ ~Collide(outVector) /\ ~Collide(inVector)
    /\ \E v \in {outVector, inVector} :
          /\ Len(v) >= 2
          /\ \E ne \in EdgesOf(trafficMap) :
                LET e == EdgeAt(trafficMap, ne)
                    key == e.Source \o " " \o e.Dest
                IN  /\ key \in DOMAIN securityPolicyMap
                    /\ Cardinality(DOMAIN securityPolicyMap[key]) = 2
                    /\ \A l \in DOMAIN securityPolicyMap[key] :
                          Observing(CallsOfVector(v), key, l) # {}

-----------------------------------------------------------------------------
(* Vocabulary of the properties about one iteration of the range loop *)

\* the vector being ranged over, and whether the next step is an iteration over a sample
CurrentVector == IF pc = "populateOut" THEN outVector ELSE inVector

Iterating == Populating /\ idx <= Len(CurrentVector)

\* the node IDs of a sample: its caller A, its destination B, and the service node S
\* of its destination service
CallerId(s) ==
    Id(s.Metric["source_workload_namespace"], "", s.Metric["source_workload_namespace"],
       s.Metric["source_workload"], s.Metric["source_app"], s.Metric["source_version"],
       a.GraphType).id

Destination(s) ==
    Id(s.Metric["destination_service_namespace"], s.Metric["destination_service_name"],
       s.Metric["destination_workload_namespace"], s.Metric["destination_workload"],
       s.Metric["destination_app"], s.Metric["destination_version"], a.GraphType)

ServiceId(s) ==
    Id(s.Metric["destination_service_namespace"], s.Metric["destination_service_name"],
       "", "", "", "", a.GraphType).id

\* the observations the step adds
Added == SubSeq(calls', Len(calls) + 1, Len(calls'))

\* the step records the sample's rate under the sample's policy label for key
Records(s, key) ==
    /\ key \in DOMAIN securityPolicyMap'
    /\ s.Metric["connection_security_policy"] \in DOMAIN securityPolicyMap'[key]
    /\ securityPolicyMap'[key][s.Metric["connection_security_policy"]] = s.Value

\* the step leaves the entry of key as it was
Keeps(key) ==
    /\ key \in DOMAIN securityPolicyMap' <=> key \in DOMAIN securityPolicyMap
    /\ key \in DOMAIN securityPolicyMap => securityPolicyMap'[key] = securityPolicyMap[key]

\* the observation c carries the sample's policy label and rate
Carries(c, s) == c.csp = s.Metric["connection_security_policy"] /\ c.val = s.Value

-----------------------------------------------------------------------------
(* C4 *)

\* C4: service injection. The iteration over a well-formed sample from A to a
\* workload/app B (not a service node) with a destination service name S adds, with
\* injection enabled, exactly the two observations (A -> S) and (S -> B), each with the
\* sample's label and rate, and none for (A -> B); with injection disabled it adds
\* exactly the one observation (A -> B). No other aggregator entry changes.
C4_ServiceInjection ==
    [][ (/\ Iterating
         /\ WellFormed(CurrentVector[idx])
         /\ CurrentVector[idx].Metric["destination_service_name"] # ""
         /\ Destination(CurrentVector[idx]).nodeType # "service")
        =>
        LET s == CurrentVector[idx]
            AS == CallerId(s) \o " " \o ServiceId(s)
            SB == ServiceId(s) \o " " \o Destination(s).id
            AB == CallerId(s) \o " " \o Destination(s).id
        IN  IF a.InjectServiceNodes
            THEN /\ Len(Added) = 2
                 /\ policyKey(Added[1]) = AS /\ Carries(Added[1], s) /\ Records(s, AS)
                 /\ policyKey(Added[2]) = SB /\ Carries(Added[2], s) /\ Records(s, SB)
                 /\ AB \notin {AS, SB}
                 /\ \A k \in (DOMAIN securityPolicyMap \cup DOMAIN securityPolicyMap')
                                 \ {AS, SB} : Keeps(k)
            ELSE /\ Len(Added) = 1
                 /\ policyKey(Added[1]) = AB /\ Carries(Added[1], s) /\ Records(s, AB)
                 /\ \A k \in (DOMAIN securityPolicyMap \cup DOMAIN securityPolicyMap')
                                 \ {AB} : Keeps(k)
      ]_vars

\* with injection enabled, the first sample of the outbound vector (to a workload or
\* app behind a named service) has just been split into two observations
C4_Witness ==
    /\ a.InjectServiceNodes
    /\ pc = "populateOut" /\ idx = 2
    /\ WellFormed(outVector[1])
    /\ outVector[1].Metric["destination_service_name"] # ""
    /\ Destination(outVector[1]).nodeType # "service"
    /\ Len(calls) = 2
    /\ policyKey(calls[1]) = CallerId(outVector[1]) \o " " \o ServiceId(outVector[1])
    /\ policyKey(calls[2]) = ServiceId(outVector[1]) \o " " \o Destination(outVector[1]).id

-----------------------------------------------------------------------------
(* C8 *)

\* C8: injection guard. With injection enabled, the iteration over a well-formed
\* sample whose destination is a service node, or whose destination service name is
\* the empty string, adds exactly one observation, (caller -> destination).
C8_InjectionGuard ==
    [][ (/\ Iterating
         /\ a.InjectServiceNodes
         /\ WellFormed(CurrentVector[idx])
         /\ \/ Destination(CurrentVector[idx]).nodeType = "service"
            \/ CurrentVector[idx].Metric["destination_service_name"] = "")
        =>
        LET s == CurrentVector[idx]
            AB == CallerId(s) \o " " \o Destination(s).id
        IN  /\ Len(Added) = 1
            /\ policyKey(Added[1]) = AB /\ Carries(Added[1], s) /\ Records(s, AB)
      ]_vars

-----------------------------------------------------------------------------
(* C6 *)

\* C6: exactly-once client initialisation. Over a run of concurrent invocations on
\* one globalInfo whose PromClient is unset, at most one metrics client is ever
\* constructed, and all invocations pass the same handle to appendGraph.
C6_ClientConstructedOnce ==
    /\ Cardinality({p \in DOMAIN cHandle : cHandle[p] # Nil}) <= 1
    /\ \A p, q \in DOMAIN cUsed :
          (cUsed[p] # Nil /\ cUsed[q] # Nil) => cUsed[p] = cUsed[q]

====
